---- MODULE Spec2Model ----
(***************************************************************************)
(* Model of the ulauncher file browser extension (main.py).                *)
(* Strings are sequences of one-character strings, so that splitting,      *)
(* joining, lower-casing, stripping and path normalisation are computed    *)
(* character by character as the Python code computes them.                *)
(***************************************************************************)
EXTENDS Integers, Sequences, FiniteSets, TLC

VARIABLES match, parse, preferences, event, result

vars == <<match, parse, preferences, event, result>>

(* ---------------------------------------------------------------------- *)
(* Bounds                                                                  *)
(* ---------------------------------------------------------------------- *)
MaxNameLen == 3
MaxFilterLen == 3
MaxArgLen == 4
MaxLimit == 2

(* ---------------------------------------------------------------------- *)
(* Python values and string primitives                                     *)
(* ---------------------------------------------------------------------- *)
\* Python's None (an absent argument, a missing preference).
None == <<"<None>">>

\* Truthiness of an optional string: None and "" are falsy.
Truthy(s) == s # None /\ s # <<>>

\* str.lower() on one character.
LowerChar(c) ==
  CASE c = "A" -> "a"
    [] c = "B" -> "b"
    [] c = "F" -> "f"
    [] OTHER -> c

\* str.lower()
Lower(s) == [i \in 1..Len(s) |-> LowerChar(s[i])]

\* str.replace(' ', '')
RemoveSpaces(s) == SelectSeq(s, LAMBDA c : c # " ")

\* Characters str.strip() removes at both ends.
IsWhitespace(c) == c \in {" ", "\t", "\n"}

\* str.strip(): drop leading and trailing whitespace.
Strip(s) ==
  LET keep == {i \in 1..Len(s) : ~IsWhitespace(s[i])}
  IN IF keep = {} THEN <<>>
     ELSE LET lo == CHOOSE i \in keep : \A j \in keep : i <= j
              hi == CHOOSE i \in keep : \A j \in keep : i >= j
          IN SubSeq(s, lo, hi)

\* str.index(c): 1-based index of the first occurrence, 0 for ValueError.
Index(s, c) ==
  LET hits == {i \in 1..Len(s) : s[i] = c}
  IN IF hits = {} THEN 0 ELSE CHOOSE i \in hits : \A j \in hits : i <= j

\* str.startswith(c) for a one-character prefix.
StartsWith(s, c) == Len(s) > 0 /\ s[1] = c

\* All strings over alphabet A of length at most n.
StrUpTo(A, n) == UNION {[1..k -> A] : k \in 0..n}

(* ---------------------------------------------------------------------- *)
(* matches_filter                                                          *)
(* ---------------------------------------------------------------------- *)
\* Variant of the loop that continues after the matched character.
RECURSIVE MatchLoopSkip(_, _)
MatchLoopSkip(rest, f) ==
  IF f = <<>> THEN TRUE
  ELSE LET index == Index(rest, Head(f))
       IN IF index = 0 THEN FALSE
          ELSE MatchLoopSkip(SubSeq(rest, index + 1, Len(rest)), Tail(f))

\* The for loop of matches_filter: rest = rest[index:] for each filter char.
RECURSIVE MatchLoop(_, _)
MatchLoop(rest, f) ==
  IF f = <<>> THEN TRUE
  ELSE LET index == Index(rest, Head(f))
       IN IF index = 0 THEN FALSE
          ELSE MatchLoop(SubSeq(rest, index, Len(rest)), Tail(f))

\* Variant whose empty-filter branch accepts every name.
matches_filter_all(file_name, filter_) ==
  IF Truthy(filter_)
  THEN MatchLoop(Lower(file_name), Strip(RemoveSpaces(Lower(filter_))))
  ELSE TRUE

\* Lines 60-81
matches_filter(file_name, filter_) ==
  IF Truthy(filter_)
  THEN MatchLoop(Lower(file_name), Strip(RemoveSpaces(Lower(filter_))))
  ELSE ~StartsWith(file_name, ".")


(* ---------------------------------------------------------------------- *)
(* str.split('/'), '/'.join, pathlib.Path                                  *)
(* ---------------------------------------------------------------------- *)
\* argument.split('/')
RECURSIVE Split(_)
Split(s) ==
  LET i == Index(s, "/")
  IN IF i = 0 THEN <<s>>
     ELSE <<SubSeq(s, 1, i - 1)>> \o Split(SubSeq(s, i + 1, Len(s)))

\* '/'.join(bits)
RECURSIVE Join(_)
Join(bits) ==
  IF bits = <<>> THEN <<>>
  ELSE IF Len(bits) = 1 THEN bits[1]
  ELSE bits[1] \o <<"/">> \o Join(Tail(bits))

\* bits[:-1]
AllButLast(bits) == SubSeq(bits, 1, Len(bits) - 1)

\* The root pathlib keeps: exactly two leading slashes stay "//", any other
\* positive number collapses to "/".
PathRoot(s) ==
  LET nonslash == {i \in 1..Len(s) : s[i] # "/"}
      lead == IF nonslash = {} THEN Len(s)
              ELSE (CHOOSE i \in nonslash : \A j \in nonslash : i <= j) - 1
  IN IF lead = 0 THEN <<>>
     ELSE IF lead = 2 THEN <<"/", "/">>
     ELSE <<"/">>

\* The parts after the root: empty and "." segments are dropped.
PathParts(s) == SelectSeq(Split(s), LAMBDA b : b # <<>> /\ b # <<".">>)

\* str(path)
PathStr(root, parts) ==
  IF root = <<>> /\ parts = <<>> THEN <<".">> ELSE root \o Join(parts)

\* Path(s), held as the string str(Path(s)).
Path(s) == PathStr(PathRoot(s), PathParts(s))

\* path / name
PathJoin(p, name) == PathStr(PathRoot(p), Append(PathParts(p), name))

\* Home directory of the user running the extension.
HOME == <<"/", "h">>

\* Home directory of a named user; no other user exists on the system.
gethomedir(user) == IF user = <<>> THEN HOME ELSE None

\* Path.expanduser(): None stands for RuntimeError.
expanduser(p) ==
  LET parts == PathParts(p)
  IN IF PathRoot(p) = <<>> /\ parts # <<>> /\ StartsWith(Head(parts), "~")
     THEN LET homedir == gethomedir(Tail(Head(parts)))
          IN IF homedir = None THEN None
             ELSE Path(homedir \o <<"/">> \o Join(Tail(parts)))
     ELSE p

(* ---------------------------------------------------------------------- *)
(* Preferences                                                             *)
(* ---------------------------------------------------------------------- *)
\* dict.get(key): None when the key is absent.
Get(prefs, key) == IF key \in DOMAIN prefs THEN prefs[key] ELSE None

(* ---------------------------------------------------------------------- *)
(* The parsing head of KeywordQueryEventListener.on_event                  *)
(* ---------------------------------------------------------------------- *)
\* Variant that takes the first segment as the filter.
ParseSplitFirst(argument) ==
  LET bits == Split(argument)
  IN [text |-> Join(AllButLast(bits)), filter |-> bits[1]]

\* The branch taken when the argument has a "/".
ParseSplit(argument) ==
  LET bits == Split(argument)
  IN [text |-> Join(AllButLast(bits)), filter |-> bits[Len(bits)]]

\* Lines 117-131: the (current_path, current_filter) pair or the exception.
ParseQuery(argument, default_path) ==
  LET split == Truthy(argument) /\ Index(argument, "/") # 0
      text == IF split THEN ParseSplit(argument).text ELSE default_path
      filter == IF split THEN ParseSplit(argument).filter ELSE argument
  IN IF text = None
     THEN [status |-> "TypeError", branch |-> "default", text |-> None,
           constructed |-> None, path |-> None, filter |-> None]
     ELSE LET constructed == Path(text)
              expanded == expanduser(constructed)
          IN [status |-> IF expanded = None THEN "RuntimeError" ELSE "ok",
              branch |-> IF split THEN "split" ELSE "default",
              text |-> text,
              constructed |-> constructed,
              path |-> expanded,
              filter |-> filter]

(* ---------------------------------------------------------------------- *)
(* Specification of the matcher as a pure function                         *)
(* ---------------------------------------------------------------------- *)
NameChars == {"a", "f", "F", "."}
FilterChars == {"a", "f", "F", " ", "\t"}

MatchNames == StrUpTo(NameChars, MaxNameLen)
MatchFilters == StrUpTo(FilterChars, MaxFilterLen) \cup {None}

NoMatch == [name |-> <<>>, filter |-> None, done |-> FALSE, value |-> FALSE]
NoParse == [argument |-> None, default |-> None, done |-> FALSE, out |-> None]
NoEvent == [kind |-> "none"]
NoResult == [status |-> "none"]

InitMatch ==
  /\ match \in [name : MatchNames, filter : MatchFilters,
                done : {FALSE}, value : {FALSE}]
  /\ parse = NoParse
  /\ preferences = [k \in {} |-> None]
  /\ event = NoEvent
  /\ result = NoResult

ApplyMatch ==
  /\ ~match.done
  /\ match' = [match EXCEPT !.done = TRUE,
                            !.value = matches_filter(match.name, match.filter)]
  /\ UNCHANGED <<parse, preferences, event, result>>

NextMatch == ApplyMatch

SpecMatch == InitMatch /\ [][NextMatch]_vars

(* ---------------------------------------------------------------------- *)
(* C1                                                                      *)
(* ---------------------------------------------------------------------- *)
\* The reference matcher: a cursor into the lower-cased name; each filter
\* character must occur at or after the cursor, and the cursor moves to the
\* index of that occurrence.
RECURSIVE RefWalk(_, _, _)
RefWalk(lname, f, cursor) ==
  IF f = <<>> THEN TRUE
  ELSE LET hits == {i \in cursor..Len(lname) : lname[i] = Head(f)}
       IN IF hits = {} THEN FALSE
          ELSE RefWalk(lname, Tail(f), CHOOSE i \in hits : \A j \in hits : i <= j)

RefMatchSpacesOnly(name, f) ==
  IF f = None \/ f = <<>> THEN ~(Len(name) > 0 /\ name[1] = ".")
  ELSE RefWalk(Lower(name), RemoveSpaces(Lower(f)), 1)

RefMatchStripped(name, f) ==
  IF f = None \/ f = <<>> THEN ~(Len(name) > 0 /\ name[1] = ".")
  ELSE RefWalk(Lower(name), Strip(RemoveSpaces(Lower(f))), 1)

\* C1 as stated: matches_filter agrees with the reference matcher whose
\* normalisation lower-cases the filter and removes only its spaces.
C1_AsStated == match.done => match.value = RefMatchSpacesOnly(match.name, match.filter)

\* C1 amended: matches_filter agrees with the reference matcher whose
\* normalisation lower-cases the filter, removes all its spaces and then
\* strips leading and trailing whitespace; the walk is order-sensitive and
\* the cursor stays on the matched index.
C1_MatchesReference ==
  match.done =>
    /\ match.value = RefMatchStripped(match.name, match.filter)
    /\ (Lower(match.name) = <<"f", "a">> /\ match.filter = <<"f", "a">> => match.value)
    /\ (Lower(match.name) = <<"f", "a">> /\ match.filter = <<"a", "f">> => ~match.value)

\* A name matched by a filter that reuses the matched character, with an
\* upper-case letter and a space in the filter.
C1_Witness ==
  /\ match.done
  /\ match.name = <<"f", "a">>
  /\ match.filter = <<"F", " ", "f">>
  /\ match.value = TRUE

(* ---------------------------------------------------------------------- *)
(* Specification of the query parsing as a pure function                   *)
(* ---------------------------------------------------------------------- *)
ArgChars == {"/", "a", ".", "~", " "}
ParseArguments == StrUpTo(ArgChars, MaxArgLen) \cup {None}
ParseDefaults == {None, <<"~">>, <<"d">>, <<"/", "x", "/">>}

InitParse ==
  /\ parse \in [argument : ParseArguments, default : ParseDefaults,
                done : {FALSE}, out : {None}]
  /\ match = NoMatch
  /\ preferences = [k \in {} |-> None]
  /\ event = NoEvent
  /\ result = NoResult

ApplyParse ==
  /\ ~parse.done
  /\ parse' = [parse EXCEPT !.done = TRUE,
                            !.out = ParseQuery(parse.argument, parse.default)]
  /\ UNCHANGED <<match, preferences, event, result>>

NextParse == ApplyParse

SpecParse == InitParse /\ [][NextParse]_vars

(* ---------------------------------------------------------------------- *)
(* C4                                                                      *)
(* ---------------------------------------------------------------------- *)
\* Position of the last "/" of s, 0 if there is none.
LastSlash(s) ==
  LET hits == {i \in 1..Len(s) : s[i] = "/"}
  IN IF hits = {} THEN 0 ELSE CHOOSE i \in hits : \A j \in hits : i >= j

\* The text before the last "/" and the text after it.
RefBaseText(arg) == SubSeq(arg, 1, LastSlash(arg) - 1)
RefFilter(arg) == SubSeq(arg, LastSlash(arg) + 1, Len(arg))

HasSlash(arg) == arg # None /\ LastSlash(arg) # 0

RefExpand(p) ==
  IF p = <<"~">> THEN HOME
  ELSE IF Len(p) >= 2 /\ p[1] = "~" /\ p[2] = "/"
       THEN HOME \o SubSeq(p, 2, Len(p))
  ELSE p

Dirs == { <<>>,
          << <<"d">> >>, << <<"h">> >>,
          << <<"h">>, <<"b">> >>, << <<"h">>, <<".", "c">> >>,
          << <<"d">>, <<"~">> >>, << <<"d">>, <<"e">> >> }
Files == { << <<"h">>, <<"a">> >>, << <<"h">>, <<"B", "a">> >>,
           << <<"h">>, <<".", "c">>, <<"a">> >>,
           << <<"d">>, <<"f">> >>, << <<"d">>, <<"~">>, <<"a">> >> }
Nodes == Dirs \cup Files
\* Directories the process may not list.
Unreadable == { << <<"h">>, <<"b">> >> }
\* Working directory of the extension process.
CWD == << <<"d">> >>
Missing == << <<"<missing>">> >>

\* Kernel path resolution from a starting node.
RECURSIVE Walk(_, _)
Walk(cur, parts) ==
  IF parts = <<>> THEN (IF cur \in Nodes THEN cur ELSE Missing)
  ELSE IF cur \notin Dirs THEN Missing
  ELSE IF Head(parts) = <<".", ".">>
       THEN Walk(IF cur = <<>> THEN cur ELSE AllButLast(cur), Tail(parts))
  ELSE Walk(Append(cur, Head(parts)), Tail(parts))

Resolve(p) == Walk(IF PathRoot(p) = <<>> THEN CWD ELSE <<>>, PathParts(p))

\* Path.is_dir()
is_dir(p) == Resolve(p) \in Dirs

\* Names of the direct children of a node.
ChildNames(node) ==
  {n[Len(n)] : n \in {m \in Nodes : Len(m) = Len(node) + 1
                                    /\ SubSeq(m, 1, Len(node)) = node}}

\* Path.iterdir(): the error it raises, or the set of child names.
iterdir(p) ==
  LET node == Resolve(p)
  IN IF node \notin Nodes THEN [status |-> "FileNotFoundError", names |-> {}]
     ELSE IF node \in Files THEN [status |-> "NotADirectoryError", names |-> {}]
     ELSE IF node \in Unreadable THEN [status |-> "PermissionError", names |-> {}]
     ELSE [status |-> "ok", names |-> ChildNames(node)]

\* The orders in which the operating system may hand out the children.
Orders(S) ==
  {f \in [1..Cardinality(S) -> S] : \A i, j \in 1..Cardinality(S) : f[i] = f[j] => i = j}

(* ---------------------------------------------------------------------- *)
(* sorted(..., key=lambda child_path: (not is_dir, name))                  *)
(* ---------------------------------------------------------------------- *)
\* ord(c)
CodePoint(c) ==
  CASE c = "\t" -> 9
    [] c = "\n" -> 10
    [] c = " " -> 32
    [] c = "." -> 46
    [] c = "/" -> 47
    [] c = "A" -> 65
    [] c = "B" -> 66
    [] c = "F" -> 70
    [] c = "a" -> 97
    [] c = "b" -> 98
    [] c = "c" -> 99
    [] c = "d" -> 100
    [] c = "e" -> 101
    [] c = "f" -> 102
    [] c = "h" -> 104
    [] c = "x" -> 120
    [] c = "~" -> 126

\* a < b on str
RECURSIVE StrLess(_, _)
StrLess(a, b) ==
  IF b = <<>> THEN FALSE
  ELSE IF a = <<>> THEN TRUE
  ELSE IF a[1] = b[1] THEN StrLess(Tail(a), Tail(b))
  ELSE CodePoint(a[1]) < CodePoint(b[1])

\* Variant of the key that compares the names case-insensitively.
KeyLessFolded(x, y) ==
  \/ is_dir(x) /\ ~is_dir(y)
  \/ is_dir(x) = is_dir(y) /\ StrLess(Lower(PathParts(x)[Len(PathParts(x))]),
                                      Lower(PathParts(y)[Len(PathParts(y))]))

\* child_path.name
PathName(p) == LET parts == PathParts(p) IN IF parts = <<>> THEN <<>> ELSE parts[Len(parts)]

\* Tuple order on the keys (not is_dir, name).
KeyLess(x, y) ==
  \/ is_dir(x) /\ ~is_dir(y)
  \/ is_dir(x) = is_dir(y) /\ StrLess(PathName(x), PathName(y))

RECURSIVE Insert(_, _)
Insert(x, s) ==
  IF s = <<>> THEN <<x>>
  ELSE IF KeyLess(x, Head(s)) THEN <<x>> \o s
  ELSE <<Head(s)>> \o Insert(x, Tail(s))

\* sorted(): a stable sort of the children by the key.
RECURSIVE sorted(_)
sorted(s) ==
  IF s = <<>> THEN <<>>
  ELSE Insert(s[Len(s)], sorted(AllButLast(s)))

(* ---------------------------------------------------------------------- *)
(* items_limit and show_hidden                                             *)
(* ---------------------------------------------------------------------- *)
Digits == <<"0", "1", "2", "3", "4", "5", "6", "7", "8", "9">>
IsDigit(c) == \E i \in 1..10 : Digits[i] = c
DigitValue(c) == (CHOOSE i \in 1..10 : Digits[i] = c) - 1

RECURSIVE DigitsValue(_)
DigitsValue(s) ==
  IF s = <<>> THEN 0 ELSE DigitsValue(AllButLast(s)) * 10 + DigitValue(s[Len(s)])

\* int(s): surrounding whitespace and one sign are accepted; ok = FALSE
\* stands for ValueError.
int(s) ==
  LET t == Strip(s)
      signed == t # <<>> /\ t[1] \in {"-", "+"}
      digits == IF signed THEN Tail(t) ELSE t
  IN IF digits # <<>> /\ \A i \in 1..Len(digits) : IsDigit(digits[i])
     THEN [ok |-> TRUE,
           value |-> IF signed /\ t[1] = "-" THEN 0 - DigitsValue(digits)
                     ELSE DigitsValue(digits)]
     ELSE [ok |-> FALSE, value |-> 0]

\* str(n) for a natural number.
RECURSIVE str(_)
str(n) == IF n < 10 THEN <<Digits[n + 1]>> ELSE str(n \div 10) \o <<Digits[(n % 10) + 1]>>

\* Lines 150-155: None, an int, or the unparsed string (which no count equals).
items_limit(prefs) ==
  LET raw == Get(prefs, "fb_items_limit")
  IN IF raw = None THEN [kind |-> "none", value |-> 0]
     ELSE IF int(raw).ok THEN [kind |-> "int", value |-> int(raw).value]
     ELSE [kind |-> "str", value |-> 0]

\* items_limit is not None and items_count == items_limit
LimitReached(items_count, limit) == limit.kind = "int" /\ items_count = limit.value

\* Variant that accepts any capitalisation.
show_hidden_folded(prefs) ==
  Get(prefs, "fb_show_hidden") # None /\ Lower(Get(prefs, "fb_show_hidden")) = <<"y", "e", "s">>

\* Line 157
show_hidden(prefs) == Get(prefs, "fb_show_hidden") = <<"Y", "e", "s">>

(* ---------------------------------------------------------------------- *)
(* KeywordQueryEventListener.on_event                                      *)
(* ---------------------------------------------------------------------- *)
OPEN_FOLDER_NAME == <<"[ Open folder in external file browser ]">>

\* Lines 136-142: the item that opens the current directory.
OpenFolderItem(current_path) ==
  [name |-> OPEN_FOLDER_NAME, action |-> "OpenAction", target |-> current_path]

\* Lines 164-174: the item of one child.
ChildItem(keyword, child_path) ==
  [name |-> PathName(child_path),
   action |-> IF is_dir(child_path) THEN "SetUserQueryAction" ELSE "OpenAction",
   target |-> IF is_dir(child_path) THEN keyword \o <<" ">> \o child_path \o <<"/">>
              ELSE child_path]

\* Lines 160-178: the loop over the sorted children.
RECURSIVE ListLoop(_, _, _, _, _, _, _)
ListLoop(rest, items, items_count, keyword, current_filter, hidden, limit) ==
  IF rest = <<>> THEN items
  ELSE LET child_path == Head(rest)
       IN IF (hidden \/ ~StartsWith(PathName(child_path), "."))
             /\ matches_filter(PathName(child_path), current_filter)
          THEN IF LimitReached(items_count + 1, limit)
               THEN Append(items, ChildItem(keyword, child_path))
               ELSE ListLoop(Tail(rest), Append(items, ChildItem(keyword, child_path)),
                             items_count + 1, keyword, current_filter, hidden, limit)
          ELSE ListLoop(Tail(rest), items, items_count, keyword, current_filter,
                        hidden, limit)

\* Variant that shows the item whatever the filter.
OpenFolderAlways(current_path, current_filter) == <<OpenFolderItem(current_path)>>

\* Lines 132-142: items before the children are listed.
OpenFolderItems(current_path, current_filter) ==
  IF ~Truthy(current_filter) THEN <<OpenFolderItem(current_path)>> ELSE <<>>

\* The handler left by an exception: nothing is rendered.
Raised(keyword, argument, pq, error) ==
  [status |-> "raised", error |-> error, keyword |-> keyword, argument |-> argument,
   current_path |-> pq.path, current_filter |-> pq.filter, items |-> <<>>]

\* The list handed to RenderResultListAction for one order of iterdir().
Rendered(keyword, argument, pq, order, prefs) ==
  LET children == [i \in 1..Len(order) |-> PathJoin(pq.path, order[i])]
      first == OpenFolderItems(pq.path, pq.filter)
  IN [status |-> "ok", error |-> "none", keyword |-> keyword, argument |-> argument,
      current_path |-> pq.path, current_filter |-> pq.filter,
      items |-> ListLoop(sorted(children), first, 0, keyword, pq.filter,
                         show_hidden(prefs), items_limit(prefs))]

(* ---------------------------------------------------------------------- *)
(* PreferencesEventListener.on_event                                       *)
(* ---------------------------------------------------------------------- *)
\* Variant that keeps only the updated key.
PrefUpdateOnly(prefs, id, new_value) == [k \in {id} |-> new_value]

\* extension.preferences[event.id] = event.new_value
PrefUpdate(prefs, id, new_value) ==
  [k \in DOMAIN prefs \cup {id} |-> IF k = id THEN new_value ELSE prefs[k]]

(* ---------------------------------------------------------------------- *)
(* The extension as a state machine over host events                       *)
(* ---------------------------------------------------------------------- *)
PrefKeys == {"fb_default_path", "fb_items_limit", "fb_show_hidden"}

PrefValues(k) ==
  CASE k = "fb_default_path" -> {<<"~">>, <<"e">>}
    [] k = "fb_items_limit" -> {str(n) : n \in 0..MaxLimit} \cup {<<"-", "1">>, <<>>}
    [] k = "fb_show_hidden" -> {<<"Y", "e", "s">>, <<"y", "e", "s">>}

\* The maps a boot event carries: a value for every declared preference.
BootMaps ==
  {[k \in PrefKeys |-> IF k = "fb_default_path" THEN d
                       ELSE IF k = "fb_items_limit" THEN l ELSE h] :
     d \in PrefValues("fb_default_path"),
     l \in PrefValues("fb_items_limit"),
     h \in PrefValues("fb_show_hidden")}

Keywords == {<<"f">>}

QueryArguments ==
  { None, <<>>, <<"a">>, <<"B", " ", "a">>, <<".">>,
    <<"/">>, <<"/", "/">>, <<".", "/">>, <<"e", "/">>,
    <<"~", "/">>, <<"~", "/", "a">>, <<"~", "/", ".", "c", "/">>, <<"~", "/", " ">>,
    <<"/", "x", "/">>, <<"/", "d", "/", "f", "/">>, <<"~", "/", "b", "/">>,
    <<"~", "x", "/">> }

\* FileBrowserExtension.__init__
Init ==
  /\ preferences = [k \in {} |-> None]
  /\ event = NoEvent
  /\ result = NoResult
  /\ match = NoMatch
  /\ parse = NoParse

\* PreferencesEvent: the event has a preferences attribute.
Boot ==
  \E m \in BootMaps :
    /\ event' = [kind |-> "boot", preferences |-> m]
    /\ preferences' = m
    /\ result' = NoResult
    /\ UNCHANGED <<match, parse>>

\* PreferencesUpdateEvent: one key and its new value.
Update ==
  \E id \in PrefKeys : \E new_value \in PrefValues(id) :
    /\ event' = [kind |-> "update", id |-> id, new_value |-> new_value]
    /\ preferences' = PrefUpdate(preferences, id, new_value)
    /\ result' = NoResult
    /\ UNCHANGED <<match, parse>>

\* KeywordQueryEvent whose handler raises before it renders.
QueryRaises ==
  \E keyword \in Keywords : \E argument \in QueryArguments :
    LET pq == ParseQuery(argument, Get(preferences, "fb_default_path"))
    IN /\ \/ pq.status # "ok"
          \/ iterdir(pq.path).status # "ok"
       /\ event' = [kind |-> "query", keyword |-> keyword, argument |-> argument]
       /\ result' = Raised(keyword, argument, pq,
                           IF pq.status # "ok" THEN pq.status
                           ELSE iterdir(pq.path).status)
       /\ UNCHANGED <<preferences, match, parse>>

\* KeywordQueryEvent whose handler returns a result list.
QueryRenders ==
  \E keyword \in Keywords : \E argument \in QueryArguments :
    LET pq == ParseQuery(argument, Get(preferences, "fb_default_path"))
    IN /\ pq.status = "ok"
       /\ iterdir(pq.path).status = "ok"
       /\ \E order \in Orders(iterdir(pq.path).names) :
            result' = Rendered(keyword, argument, pq, order, preferences)
       /\ event' = [kind |-> "query", keyword |-> keyword, argument |-> argument]
       /\ UNCHANGED <<preferences, match, parse>>

Next == Boot \/ Update \/ QueryRaises \/ QueryRenders

Spec == Init /\ [][Next]_vars

(* ---------------------------------------------------------------------- *)
(* Vocabulary of the properties of a rendered result                       *)
(* ---------------------------------------------------------------------- *)
Rendering == result.status = "ok"

\* The entries of the result other than the "open folder" item.
ChildItems == SelectSeq(result.items, LAMBDA it : it.name # OPEN_FOLDER_NAME)
ChildItemNames == [i \in 1..Len(ChildItems) |-> ChildItems[i].name]

\* The directory the query listed and the names in it.
BaseNode == Resolve(result.current_path)
BaseNames == ChildNames(BaseNode)
NodeOf(name) == Append(BaseNode, name)

FilterIsEmpty == result.current_filter = None \/ result.current_filter = <<>>
IsHiddenName(name) == Len(name) > 0 /\ name[1] = "."

\* The two inclusion rules of the lister.
Passes(name) ==
  /\ Get(preferences, "fb_show_hidden") = <<"Y", "e", "s">> \/ ~IsHiddenName(name)
  /\ matches_filter(name, result.current_filter)
PassingNames == {n \in BaseNames : Passes(n)}

\* Directories first, then ordinary string order on the names.
ComesBefore(n1, n2) ==
  \/ NodeOf(n1) \in Dirs /\ NodeOf(n2) \in Files
  \/ (NodeOf(n1) \in Dirs) = (NodeOf(n2) \in Dirs) /\ StrLess(n1, n2)

\* The passing names in listing order.
PassingInOrder ==
  CHOOSE f \in Orders(PassingNames) :
    \A i, j \in 1..Cardinality(PassingNames) : i < j => ComesBefore(f[i], f[j])

FirstN(s, n) == SubSeq(s, 1, IF n < Len(s) THEN n ELSE Len(s))

\* The configured limit when it encodes an integer.
ConfiguredLimit == int(Get(preferences, "fb_items_limit"))
LimitIsNumber(n) ==
  /\ Get(preferences, "fb_items_limit") # None
  /\ ConfiguredLimit.ok
  /\ ConfiguredLimit.value = n

(* ---------------------------------------------------------------------- *)
(* C2                                                                      *)
(* ---------------------------------------------------------------------- *)
\* C2 as stated: for a limit encoding a non-negative integer N, zero
\* included, the result holds at most N entries besides the "open folder"
\* item, and they are the first N passing children in listing order.
C2_AsStated ==
  \A n \in 0..(MaxLimit + 1) :
    (Rendering /\ LimitIsNumber(n)) =>
      /\ Len(ChildItems) <= n
      /\ ChildItemNames = FirstN(PassingInOrder, n)

(* ---------------------------------------------------------------------- *)
(* C3                                                                      *)
(* ---------------------------------------------------------------------- *)
BaseUnavailable ==
  /\ event.kind = "query"
  /\ result.status # "none"
  /\ result.current_path # None
  /\ iterdir(result.current_path).status # "ok"

\* C3 as stated: a query whose base path is missing, is not a directory or
\* cannot be read completes with a result list and does not raise.
C3_AsStated == BaseUnavailable => result.status = "ok"

(* ---------------------------------------------------------------------- *)
(* C5                                                                      *)
(* ---------------------------------------------------------------------- *)
\* The absolute form of a path of the process.
AbsText(p) ==
  IF PathRoot(p) # <<>> THEN p
  ELSE <<"/">> \o Join(CWD \o PathParts(p))

\* The argument the host hands over for a query string "keyword argument".
ArgumentOf(query, keyword) == SubSeq(query, Len(keyword) + 2, Len(query))

\* C5 as stated: a directory entry's action rewrites the query to the
\* keyword, a space, the entry's absolute path and "/", and the argument of
\* that query parses to the entry's directory with an empty filter.
C5_AsStated ==
  Rendering =>
    \A i \in 1..Len(ChildItems) :
      ChildItems[i].action = "SetUserQueryAction" =>
        LET child == PathJoin(result.current_path, ChildItems[i].name)
            again == ParseQuery(ArgumentOf(ChildItems[i].target, result.keyword),
                                Get(preferences, "fb_default_path"))
        IN /\ ChildItems[i].target =
                result.keyword \o <<" ">> \o AbsText(child) \o <<"/">>
           /\ again.status = "ok"
           /\ Resolve(again.path) = NodeOf(ChildItems[i].name)
           /\ again.filter = <<>>

(* ---------------------------------------------------------------------- *)
(* C6                                                                      *)
(* ---------------------------------------------------------------------- *)
OpenFolderPositions ==
  {i \in 1..Len(result.items) : result.items[i].name = OPEN_FOLDER_NAME}

\* C6: a rendered result holds the "open folder" item exactly once, in
\* first position and opening the base path, when the filter is empty, and
\* does not hold it when the filter is not empty.
C6_OpenFolderItem ==
  Rendering =>
    /\ FilterIsEmpty =>
         /\ OpenFolderPositions = {1}
         /\ result.items[1].action = "OpenAction"
         /\ result.items[1].target = result.current_path
    /\ ~FilterIsEmpty => OpenFolderPositions = {}

\* An unfiltered listing of the home directory with its entries after the
\* "open folder" item.
C6_Witness ==
  /\ Rendering
  /\ FilterIsEmpty
  /\ result.current_path = HOME
  /\ Len(result.items) >= 3
  /\ result.items[1].name = OPEN_FOLDER_NAME

(* ---------------------------------------------------------------------- *)
(* C7                                                                      *)
(* ---------------------------------------------------------------------- *)
\* C7: in a rendered result every directory precedes every file, names
\* ascend in ordinary string order within each group, and the list is the
\* same for every order in which the directory hands out its children.
C7_Ordering ==
  Rendering =>
    /\ \A i, j \in 1..Len(ChildItems) :
         i < j => ComesBefore(ChildItems[i].name, ChildItems[j].name)
    /\ \A order \in Orders(BaseNames) :
         Rendered(result.keyword, result.argument,
                  ParseQuery(result.argument, Get(preferences, "fb_default_path")),
                  order, preferences).items = result.items

\* A directory, then an upper-case file name, then a lower-case one.
C7_Witness ==
  /\ Rendering
  /\ ChildItemNames = << <<"b">>, <<"B", "a">>, <<"a">> >>

(* ---------------------------------------------------------------------- *)
(* C8                                                                      *)
(* ---------------------------------------------------------------------- *)
\* C8: a boot event replaces the preferences by its map, an update event
\* replaces the value of its key and leaves every other key as it was, and
\* a query event leaves the preferences as they were.
C8_PreferencesFrame ==
  [][ /\ event'.kind = "boot" => preferences' = event'.preferences
      /\ event'.kind = "update" =>
           /\ DOMAIN preferences' = DOMAIN preferences \cup {event'.id}
           /\ preferences'[event'.id] = event'.new_value
           /\ \A k \in DOMAIN preferences \ {event'.id} :
                preferences'[k] = preferences[k]
      /\ event'.kind = "query" => preferences' = preferences ]_vars

\* An update of the limit after a boot, the other keys still present.
C8_Witness ==
  /\ event.kind = "update"
  /\ event.id = "fb_items_limit"
  /\ DOMAIN preferences = PrefKeys
  /\ preferences["fb_items_limit"] = event.new_value
  /\ preferences["fb_show_hidden"] = <<"Y", "e", "s">>
  /\ preferences["fb_default_path"] = <<"e">>

(* ---------------------------------------------------------------------- *)
(* C9                                                                      *)
(* ---------------------------------------------------------------------- *)
IncludedNames == {ChildItems[i].name : i \in 1..Len(ChildItems)}

\* C9: only children passing both rules are listed, all of them are listed
\* unless the limit cut the list, and no hidden name is listed unless the
\* show-hidden preference is exactly "Yes".
C9_InclusionRules ==
  Rendering =>
    /\ IncludedNames \subseteq PassingNames
    /\ ~LimitReached(Len(ChildItems), items_limit(preferences)) =>
         IncludedNames = PassingNames
    /\ Get(preferences, "fb_show_hidden") # <<"Y", "e", "s">> =>
         \A n \in IncludedNames : ~IsHiddenName(n)

\* A hidden entry listed under show-hidden "Yes" and a filter it matches.
C9_Witness ==
  /\ Rendering
  /\ Get(preferences, "fb_show_hidden") = <<"Y", "e", "s">>
  /\ ~FilterIsEmpty
  /\ \E n \in IncludedNames : IsHiddenName(n)
  /\ \E n \in BaseNames : n \notin IncludedNames

(* ---------------------------------------------------------------------- *)
(* C10                                                                     *)
(* ---------------------------------------------------------------------- *)
\* C10: with an empty filter no hidden name is listed, whatever the
\* show-hidden preference.
C10_EmptyFilterHidesHidden ==
  (Rendering /\ FilterIsEmpty) => \A n \in IncludedNames : ~IsHiddenName(n)

\* Show-hidden is "Yes", the filter is empty, the directory has a hidden
\* child and the others are listed.
C10_Witness ==
  /\ Rendering
  /\ FilterIsEmpty
  /\ Get(preferences, "fb_show_hidden") = <<"Y", "e", "s">>
  /\ \E n \in BaseNames : IsHiddenName(n)
  /\ IncludedNames # {}

====
